---- MODULE Spec2Model ----
(***************************************************************************)
(* A model of MIDI Explorer: the probe decoder (_add_probe_data), the      *)
(* activity indicators (_mon_blink / update_blink_status), the history     *)
(* table, the receive callback and polling producers with their queue,     *)
(* and the connection editor (link / delink / input mode).                 *)
(*                                                                         *)
(* Time: time.time() is the integer variable clock, counted in ticks of    *)
(* 1/TicksPerSecond seconds.  Python's None is the empty sequence None and *)
(* a present value v is <<v>>.                                             *)
(***************************************************************************)
EXTENDS Integers, Sequences, FiniteSets, TLC

(***************************************************************************)
(* Bounds of the model                                                     *)
(***************************************************************************)
TicksPerSecond == 4
MaxClock == 3
MaxSyxLen == 4
MaxController == 1
MaxEvents == 2
MaxNames == 3

(***************************************************************************)
(* Program constants                                                       *)
(***************************************************************************)
START_TIME == 1
US2MS == 1000
NOTE_OFF_VELOCITY == 0
NumChannels == 16

None == <<>>
Some(v) == <<v>>
IsNone(o) == o = <<>>
Val(o) == o[1]

(***************************************************************************)
(* Python sequence indexing: s[i] is the (i+1)-th element, s[i:] and       *)
(* s[i:j] are slices (a slice never raises).                               *)
(***************************************************************************)
InRange(s, i) == i >= 0 /\ i < Len(s)
At(s, i) == s[i + 1]
Min(a, b) == IF a < b THEN a ELSE b
SliceFrom(s, i) == IF i >= Len(s) THEN <<>> ELSE SubSeq(s, i + 1, Len(s))
Slice(s, i, j) == IF i >= Min(j, Len(s)) THEN <<>> ELSE SubSeq(s, i + 1, Min(j, Len(s)))

(***************************************************************************)
(* Messages (mido.Message).  A message has a type and the attributes of    *)
(* that type; hasattr(data, 'channel') holds for the channel voice types.  *)
(* The record keeps one field per kind of attribute: `note` also holds a   *)
(* quarter frame's frame_type, `value` also holds program, pitch, pos,     *)
(* song and frame_value; an attribute a type lacks is 0 and is not read.   *)
(***************************************************************************)
ChannelTypes ==
    {"note_off", "note_on", "polytouch", "control_change", "program_change",
     "aftertouch", "pitchwheel"}
SystemTypes ==
    {"sysex", "quarter_frame", "songpos", "song_select", "tune_request", "clock",
     "start", "continue", "stop", "active_sensing", "reset", "end_of_exclusive"}
MsgTypes == ChannelTypes \cup SystemTypes

\* 'note' in data.type and 'on' in data.type are substring tests
TypesContainingNote == {"note_off", "note_on"}
TypesContainingOn == {"note_on", "control_change", "songpos", "song_select", "continue"}

HasChannel(data) == data.type \in ChannelTypes

BlankMsg ==
    [type |-> "clock", channel |-> 0, note |-> 0, velocity |-> 0, control |-> 0,
     value |-> 0, data |-> <<>>, time |-> None]

NoteMsg(type, ch, n, v, t) ==
    [BlankMsg EXCEPT !.type = type, !.channel = ch, !.note = n, !.velocity = v, !.time = t]
CcMsg(ch, c, v, t) ==
    [BlankMsg EXCEPT !.type = "control_change", !.channel = ch, !.control = c,
                     !.value = v, !.time = t]
SysexMsg(d, t) == [BlankMsg EXCEPT !.type = "sysex", !.data = d, !.time = t]
PlainMsg(type, t) == [BlankMsg EXCEPT !.type = type, !.time = t]

(***************************************************************************)
(* Lookup tables (midi.constants), restricted to the bytes of the model.   *)
(***************************************************************************)
default_syx_label == "Undefined"

\* the 3-byte IDs: SYSTEM_EXCLUSIVE_ID[0x00][region][id]
ManufacturerRegions == {0, 32}
Manufacturer3(region, id) ==
    CASE region = 0 /\ id = 1 -> "Time Warner Interactive"
      [] region = 32 /\ id = 0 -> "Dream"
      [] region = 32 /\ id = 1 -> "Strand Lighting"
      [] region = 32 /\ id = 32 -> "Doepfer Musikelektronik"
      [] region = 32 /\ id = 41 -> "Novation EMS"
      [] OTHER -> default_syx_label

\* the 1-byte IDs: SYSTEM_EXCLUSIVE_ID[id]
Manufacturer1(id) ==
    CASE id = 1 -> "Sequencial"
      [] id = 6 -> "Lexicon"
      [] id = 32 -> "Passac"
      [] id = 41 -> "PPG"
      [] id = 65 -> "Roland"
      [] OTHER -> default_syx_label

\* DEFINED_UNIVERSAL_SYSTEM_EXCLUSIVE_MESSAGES_NON_REAL_TIME_SUB_ID_1.get(b, default)
NonRealTimeSubId1(b) ==
    CASE b = 0 -> "Unused"
      [] b = 1 -> "Sample Dump Header"
      [] b = 6 -> "General Information"
      [] b = 126 -> "NAK"
      [] b = 127 -> "ACK"
      [] OTHER -> default_syx_label

\* keys of NON_REAL_TIME_SUB_ID_2_FROM_1: the sub-ID#1 values with a sub-ID#2 table
NonRealTimeSubId2Keys == {4, 5, 6, 7, 8, 9}
NonRealTimeSubId2(s1, b) ==
    CASE s1 = 6 /\ b = 1 -> "Identity Request"
      [] s1 = 6 /\ b = 2 -> "Identity Reply"
      [] s1 = 4 /\ b = 0 -> "Special"
      [] s1 = 4 /\ b = 1 -> "Punch In Points"
      [] s1 = 4 /\ b = 6 -> "Event Stop Point"
      [] s1 = 5 /\ b = 1 -> "Multiple Loop Points"
      [] s1 = 7 /\ b = 1 -> "Header"
      [] s1 = 8 /\ b = 0 -> "Bulk Dump Request"
      [] s1 = 8 /\ b = 1 -> "Bulk Dump Reply"
      [] s1 = 9 /\ b = 1 -> "General MIDI System On"
      [] OTHER -> default_syx_label

\* DEFINED_UNIVERSAL_SYSTEM_EXCLUSIVE_MESSAGES_REAL_TIME_SUB_ID_1.get(b, default)
RealTimeSubId1(b) ==
    CASE b = 0 -> "Unused"
      [] b = 1 -> "MIDI Time Code"
      [] b = 6 -> "MIDI Machine Control Commands"
      [] OTHER -> default_syx_label

RealTimeSubId2Keys == {1, 2, 3, 4, 5, 6, 7, 8}
RealTimeSubId2(s1, b) ==
    CASE s1 = 1 /\ b = 1 -> "Full Message"
      [] s1 = 6 /\ b = 0 -> "MMC Commands"
      [] OTHER -> default_syx_label

\* SYSTEM_EXCLUSIVE_ID_GROUPS[b]: subscripted, so a missing key raises KeyError
SyxIdGroupDefined(b) == b \in 0 .. 127
SyxIdGroup(b) ==
    CASE b = 0 -> "Extended"
      [] b \in 1 .. 124 -> "Manufacturer"
      [] b = 125 -> "Non-Commercial"
      [] OTHER -> "Universal"

\* SYSTEM_EXCLUSIVE_ID_REGIONS.get(b)
SyxIdRegion(b) ==
    CASE b \in 1 .. 31 -> Some("American")
      [] b \in 32 .. 63 -> Some("European")
      [] b \in 64 .. 95 -> Some("Japanese")
      [] OTHER -> None

(***************************************************************************)
(* Subscripting.  A tuple subscript out of range raises IndexError; a      *)
(* mido.Message defines no __getitem__, so subscripting it raises          *)
(* TypeError whatever the index.                                           *)
(***************************************************************************)
TupleGetItem(s, i) ==
    IF InRange(s, i) THEN [exc |-> "none", v |-> At(s, i)]
    ELSE [exc |-> "IndexError", v |-> 0]
MessageGetItem(data, i) == [exc |-> "TypeError", v |-> 0]

(***************************************************************************)
(* System Exclusive decoding (_add_probe_data, the 'sysex' branch).        *)
(* The result carries the local variables of the branch and, in raised,    *)
(* the exception that ended it ("none" when it ran to its end).            *)
(***************************************************************************)
SyxBlank ==
    [raised |-> "none", syx_id_group |-> "", syx_id_region |-> None, syx_id |-> None,
     syx_id_len |-> 0, syx_id_label |-> "", syx_device_id |-> None,
     syx_sub_id1 |-> None, syx_sub_id1_label |-> "", syx_sub_id2 |-> None,
     syx_sub_id2_label |-> "", syx_payload |-> None, next_byte |-> 0]

SyxRaise(s, exc) == [s EXCEPT !.raised = exc]

\* lines 195-203: extract the ID and decode its group
SyxExtractIdOneByte(data0) ==
    LET first == TupleGetItem(data0, 0) IN
    IF first.exc # "none" THEN SyxRaise(SyxBlank, first.exc)
    ELSE IF ~SyxIdGroupDefined(first.v) THEN SyxRaise(SyxBlank, "KeyError")
    ELSE [SyxBlank EXCEPT !.syx_id = <<first.v>>, !.syx_id_len = 1,
                          !.syx_id_group = SyxIdGroup(first.v)]
SyxExtractId(data0) ==
    LET first == TupleGetItem(data0, 0) IN
    IF first.exc # "none" THEN SyxRaise(SyxBlank, first.exc)
    ELSE IF ~SyxIdGroupDefined(first.v) THEN SyxRaise(SyxBlank, "KeyError")
    ELSE IF first.v = 0
         THEN [SyxBlank EXCEPT !.syx_id = Slice(data0, 0, 3), !.syx_id_len = 3,
                               !.syx_id_group = SyxIdGroup(first.v)]
         ELSE [SyxBlank EXCEPT !.syx_id = <<first.v>>, !.syx_id_len = 1,
                               !.syx_id_group = SyxIdGroup(first.v)]

\* lines 207-213: decode the region
SyxDecodeRegion(s) ==
    IF s.raised # "none" THEN s
    ELSE IF s.syx_id_len = 1
         THEN [s EXCEPT !.syx_id_region = SyxIdRegion(s.syx_id[1])]
         ELSE LET b1 == TupleGetItem(s.syx_id, 1) IN
              IF b1.exc # "none" THEN SyxRaise(s, b1.exc)
              ELSE [s EXCEPT !.syx_id_region = SyxIdRegion(b1.v)]

\* lines 215-227: decode the ID label through the 1-byte table or the
\* group -> region -> id chain
SyxDecodeLabelSubscript(s) ==
    IF s.raised # "none" THEN s
    ELSE IF s.syx_id_len = 1
         THEN IF Manufacturer1(s.syx_id[1]) = default_syx_label THEN SyxRaise(s, "KeyError")
              ELSE [s EXCEPT !.syx_id_label = Manufacturer1(s.syx_id[1])]
         ELSE LET b1 == TupleGetItem(s.syx_id, 1) IN
              IF b1.exc # "none" THEN SyxRaise(s, b1.exc)
              ELSE IF b1.v \notin ManufacturerRegions THEN SyxRaise(s, "KeyError")
                   ELSE LET b2 == TupleGetItem(s.syx_id, 2) IN
                        IF b2.exc # "none" THEN SyxRaise(s, b2.exc)
                        ELSE [s EXCEPT !.syx_id_label = Manufacturer3(b1.v, b2.v)]
SyxDecodeLabel(s) ==
    IF s.raised # "none" THEN s
    ELSE IF s.syx_id_len = 1
         THEN [s EXCEPT !.syx_id_label = Manufacturer1(s.syx_id[1])]
         ELSE \* SYSTEM_EXCLUSIVE_ID.get(0x00) is the table of the 3-byte IDs
              LET b1 == TupleGetItem(s.syx_id, 1) IN
              IF b1.exc # "none" THEN SyxRaise(s, b1.exc)
              ELSE IF b1.v \notin ManufacturerRegions
                   THEN [s EXCEPT !.syx_id_label = default_syx_label]
                   ELSE LET b2 == TupleGetItem(s.syx_id, 2) IN
                        IF b2.exc # "none" THEN SyxRaise(s, b2.exc)
                        ELSE [s EXCEPT !.syx_id_label = Manufacturer3(b1.v, b2.v)]

\* lines 230-232: the device ID is the byte after the ID
SyxExtractDeviceId(s, data0) ==
    IF s.raised # "none" THEN s
    ELSE LET dev == TupleGetItem(data0, s.syx_id_len) IN
         IF dev.exc # "none" THEN SyxRaise(s, dev.exc)
         ELSE [s EXCEPT !.syx_device_id = Some(dev.v), !.next_byte = s.syx_id_len]

\* syx_id == 0x7E: false for a 3-byte ID, which is a tuple
SyxIdIs(s, b) == s.syx_id_len = 1 /\ s.syx_id[1] = b

\* lines 235-250: universal non-real-time; sub-ID#1 is read from data, the
\* message, and not from data0, its bytes
SyxNonRealTime(s, data, data0) ==
    IF s.raised # "none" \/ ~SyxIdIs(s, 126) THEN s
    ELSE LET s1 == MessageGetItem(data, s.next_byte + 1) IN
         IF s1.exc # "none" THEN SyxRaise([s EXCEPT !.next_byte = @ + 1], s1.exc)
         ELSE LET t == [s EXCEPT !.next_byte = @ + 1, !.syx_sub_id1 = Some(s1.v),
                                 !.syx_sub_id1_label = NonRealTimeSubId1(s1.v)] IN
              IF s1.v \notin NonRealTimeSubId2Keys THEN t
              ELSE LET s2 == TupleGetItem(data0, t.next_byte + 1) IN
                   IF s2.exc # "none" THEN SyxRaise([t EXCEPT !.next_byte = @ + 1], s2.exc)
                   ELSE [t EXCEPT !.next_byte = @ + 1, !.syx_sub_id2 = Some(s2.v),
                                  !.syx_sub_id2_label = NonRealTimeSubId2(s1.v, s2.v)]

\* lines 251-265: universal real-time
SyxRealTime(s, data0) ==
    IF s.raised # "none" \/ ~SyxIdIs(s, 127) THEN s
    ELSE LET s1 == TupleGetItem(data0, s.next_byte + 1) IN
         IF s1.exc # "none" THEN SyxRaise([s EXCEPT !.next_byte = @ + 1], s1.exc)
         ELSE LET t == [s EXCEPT !.next_byte = @ + 1, !.syx_sub_id1 = Some(s1.v),
                                 !.syx_sub_id1_label = RealTimeSubId1(s1.v)] IN
              IF s1.v \notin RealTimeSubId2Keys THEN t
              ELSE LET s2 == TupleGetItem(data0, t.next_byte + 1) IN
                   IF s2.exc # "none" THEN SyxRaise([t EXCEPT !.next_byte = @ + 1], s2.exc)
                   ELSE [t EXCEPT !.next_byte = @ + 1, !.syx_sub_id2 = Some(s2.v),
                                  !.syx_sub_id2_label = RealTimeSubId2(s1.v, s2.v)]

\* lines 279-281: the undecoded payload
SyxPayload(s, data0) ==
    IF s.raised # "none" THEN s
    ELSE [s EXCEPT !.next_byte = @ + 1, !.syx_payload = Some(SliceFrom(data0, s.next_byte + 1))]

SysexDecode(data) ==
    LET data0 == data.data
        a == SyxExtractId(data0)
        b == SyxDecodeRegion(a)
        c == SyxDecodeLabel(b)
        d == SyxExtractDeviceId(c, data0)
        e == SyxNonRealTime(d, data, data0)
        f == SyxRealTime(e, data0)
    IN  SyxPayload(f, data0)

\* lines 284-298: the values the GUI shows
SyxValues(s) ==
    [syx_id_type |-> [region |-> s.syx_id_region, group |-> s.syx_id_group],
     syx_id |-> s.syx_id, syx_id_label |-> s.syx_id_label,
     syx_device_id |-> s.syx_device_id,
     syx_sub_id1 |-> s.syx_sub_id1, syx_sub_id1_label |-> s.syx_sub_id1_label,
     syx_sub_id2 |-> s.syx_sub_id2, syx_sub_id2_label |-> s.syx_sub_id2_label,
     syx_payload |-> s.syx_payload]

\* lines 459-467: the values registered by create()
SyxValuesInit ==
    [syx_id_type |-> [region |-> None, group |-> ""],
     syx_id |-> None, syx_id_label |-> "", syx_device_id |-> None,
     syx_sub_id1 |-> None, syx_sub_id1_label |-> "",
     syx_sub_id2 |-> None, syx_sub_id2_label |-> "", syx_payload |-> None]

(***************************************************************************)
(* State                                                                   *)
(***************************************************************************)
VARIABLES
    clock,                  \* time.time(), in ticks
    probe_data_counter,     \* probe.py global
    previous_timestamp,     \* probe.py global (None or a time)
    probe_data_table,       \* the rows of 'probe_data_table', top to bottom
    active_until,           \* mon_<indicator>_active_until values
    theme,                  \* TRUE where the '__red' theme is bound to a button
    note_theme,             \* TRUE where '__red' is bound to a keyboard key
    zero_velocity_note_on_is_note_off,
    mon_blink_duration,     \* in ticks
    syx_values,             \* the syx_* values shown by the GUI
    raised,                 \* the exception that ended the process, or "none"
    queue,                  \* the process-wide queue of received messages
    pc,                     \* the main loop's position
    lock,                   \* the callback lock: None, or the thread holding it
    cb,                     \* per input port: the receive callback running on its thread
    pending,                \* per input port: messages the binding holds for polling
    sent,                   \* the messages sent to output ports, in order
    links,                  \* the node links of the connections editor
    pin_user_data,          \* the user data of the probe's pins
    pin_shape,              \* TRUE where a pin's shape is TriangleFilled
    in_port,                \* per input port: open, dest, callback attached
    out_open,               \* per output port: open
    input_mode,             \* the 'input_mode' value
    system,                 \* platform.system()
    midi_inputs,            \* the names of the input pins, as last enumerated
    midi_outputs,           \* the names of the output pins, as last enumerated
    eox_category,           \* the 'eox_category' value: the index of the chosen option
    eox_shown,              \* TRUE where an End-of-Exclusive button is shown
    arrivals,               \* history variable: messages received from the devices
    decoded,                \* history variable: every event processed so far
    since_clear             \* history variable: the events appended since the last clear

probeVars ==
    <<probe_data_counter, previous_timestamp, probe_data_table, active_until, theme,
      note_theme, syx_values, raised, decoded, since_clear>>
guiVars == <<system, midi_inputs, midi_outputs, eox_category, eox_shown>>
prefVars == <<zero_velocity_note_on_is_note_off, mon_blink_duration, guiVars>>
connVars == <<links, pin_user_data, pin_shape, in_port, out_open, input_mode>>
ioVars == <<queue, lock, cb, pending, sent, arrivals>>
vars == <<clock, pc, probeVars, prefVars, ioVars, connVars>>

(***************************************************************************)
(* Indicators: a message type, 'c', 's', a channel, or a controller.       *)
(***************************************************************************)
Ind(k, n) == [k |-> k, n |-> n]
TypeInd(t) == Ind(t, 0)
ChanInd(ch) == Ind("chan", ch)
CcInd(c) == Ind("cc", c)
Channels == 0 .. NumChannels - 1
Controllers == 0 .. MaxController
Indicators ==
    {TypeInd(t) : t \in MsgTypes} \cup {Ind("c", 0), Ind("s", 0)}
        \cup {ChanInd(ch) : ch \in Channels} \cup {CcInd(c) : c \in Controllers}
EoxButtons == {Ind("end_of_exclusive_common", 0), Ind("end_of_exclusive_syx", 0)}
\* the buttons an indicator lights: End of Exclusive has one in each category
ButtonsOf(ind) == IF ind = TypeInd("end_of_exclusive") THEN EoxButtons ELSE {ind}
Buttons == UNION {ButtonsOf(ind) : ind \in Indicators}
NoteKeys == 0 .. 1

(***************************************************************************)
(* _mon_blink (probe.py 335-346), on the probe state p at time.time() = t  *)
(***************************************************************************)
MonBlinkNoDelay(p, indicator, t) ==
    LET now == t - START_TIME
    IN  [p EXCEPT !.active_until[indicator] = now,
                  !.theme = [b \in Buttons |->
                                IF b \in ButtonsOf(indicator) THEN TRUE ELSE @[b]]]
MonBlink(p, indicator, t) ==
    LET now == t - START_TIME
        until == now + mon_blink_duration
    IN  [p EXCEPT !.active_until[indicator] = until,
                  !.theme = [b \in Buttons |->
                                IF b \in ButtonsOf(indicator) THEN TRUE ELSE @[b]]]

\* _note_on / _note_off (probe.py 351-356)
NoteOn(p, number) == [p EXCEPT !.note_theme[number] = TRUE]
NoteOff(p, number) == [p EXCEPT !.note_theme[number] = FALSE]

(***************************************************************************)
(* The history table.  dpg.table_row(parent, label, before): the row is    *)
(* placed before the item whose tag is `before`, and at the end of the     *)
(* table when no item has that tag.  The rows are created with a label and *)
(* no tag.                                                                 *)
(***************************************************************************)
RowLabel(n) == [name |-> "probe_data", n |-> n]
PlaceholderRow ==
    [tag |-> None, label |-> RowLabel(0), source |-> "", ts |-> 0,
     delta |-> [kind |-> "unset", v |-> 0], type |-> "",
     status |-> 0, chan |-> [kind |-> "unset", v |-> 0],
     data0 |-> [kind |-> "unset", v |-> <<>>], data1 |-> [kind |-> "unset", v |-> <<>>]]

InsertAt(t, i, row) == SubSeq(t, 1, i - 1) \o <<row>> \o SubSeq(t, i, Len(t))
DpgAddRowBeforeLabel(table, row, before) ==
    LET hits == {i \in 1 .. Len(table) : table[i].label = before} IN
    IF hits = {} THEN Append(table, row)
    ELSE InsertAt(table, CHOOSE i \in hits : \A j \in hits : i <= j, row)
DpgAddRow(table, row, before) ==
    LET hits == {i \in 1 .. Len(table) : table[i].tag = Some(before)} IN
    IF hits = {} THEN Append(table, row)
    ELSE InsertAt(table, CHOOSE i \in hits : \A j \in hits : i <= j, row)

\* _init_details_table_data (probe.py 37-40) on an emptied table
InitDetailsTableData(table) == Append(table, PlaceholderRow)

(***************************************************************************)
(* Delta (probe.py 83-94).  delta starts as the string "0.32"; a number    *)
(* replaces it when the message has a time or a previous timestamp exists. *)
(* Times are in ticks, so seconds * US2MS is ticks * US2MS / TicksPerSecond*)
(***************************************************************************)
ToMs(ticks) == (ticks * US2MS) \div TicksPerSecond
DeltaDefault == [kind |-> "str", v |-> 0]         \* "0.32"
Delta(timestamp, data, prev) ==
    IF ~IsNone(data.time) THEN [kind |-> "device", v |-> ToMs(Val(data.time))]
    ELSE IF ~IsNone(prev) THEN [kind |-> "computed", v |-> ToMs(timestamp - Val(prev))]
    ELSE DeltaDefault
\* f"{delta:n}" formats a number; on a str it raises ValueError
FormatN(delta) == IF delta.kind = "str" THEN "ValueError" ELSE "none"

(***************************************************************************)
(* _add_probe_data (probe.py 48-332).  The probe state is passed as a      *)
(* record through the statements of the function, in their order; once an  *)
(* exception is raised the remaining statements do not run.                *)
(***************************************************************************)
ProbeState ==
    [probe_data_counter |-> probe_data_counter, previous_timestamp |-> previous_timestamp,
     probe_data_table |-> probe_data_table, active_until |-> active_until,
     theme |-> theme, note_theme |-> note_theme, syx_values |-> syx_values,
     raised |-> raised]

PyNone == [kind |-> "none", v |-> <<>>]
PyInt(n) == [kind |-> "int", v |-> <<n>>]
PyTuple(s) == [kind |-> "tuple", v |-> s]

\* lines 63-70: count the row and create it, before the previous row's tag
AddRow(p, timestamp, source, data) ==
    LET previous_data == p.probe_data_counter
        counter == p.probe_data_counter + 1
        row == [PlaceholderRow EXCEPT !.label = RowLabel(counter), !.source = source,
                                      !.ts = ToMs(timestamp - START_TIME),
                                      !.type = data.type]
    IN  [p EXCEPT !.probe_data_counter = counter,
                  !.probe_data_table = DpgAddRow(@, row, RowLabel(previous_data))]

SetLastRow(p, field, v) ==
    LET n == CHOOSE i \in 1 .. Len(p.probe_data_table) :
                 p.probe_data_table[i].label = RowLabel(p.probe_data_counter)
    IN  [p EXCEPT !.probe_data_table[n][field] = v]

\* lines 83-94: the delta cell, and previous_timestamp
AddDeltaComputedOnly(p, timestamp, data) ==
    LET delta == Delta(timestamp, data, p.previous_timestamp)
        q == IF IsNone(data.time) THEN [p EXCEPT !.previous_timestamp = Some(timestamp)] ELSE p
    IN  IF FormatN(delta) # "none" THEN [q EXCEPT !.raised = FormatN(delta)]
        ELSE SetLastRow(q, "delta", delta)
AddDelta(p, timestamp, data) ==
    LET delta == Delta(timestamp, data, p.previous_timestamp)
        q == [p EXCEPT !.previous_timestamp = Some(timestamp)]
    IN  IF FormatN(delta) # "none" THEN [q EXCEPT !.raised = FormatN(delta)]
        ELSE SetLastRow(q, "delta", delta)

\* lines 108-109: the status indicator
BlinkStatus(p, data, t) ==
    IF p.raised # "none" THEN p ELSE MonBlink(p, TypeInd(data.type), t)

\* midi.mido2standard.get_status_by_type(data.type): the status byte of the
\* type, with the channel bits at 0 for a channel voice type
StatusByType(type) ==
    CASE type = "note_off" -> 128 [] type = "note_on" -> 144 [] type = "polytouch" -> 160
      [] type = "control_change" -> 176 [] type = "program_change" -> 192
      [] type = "aftertouch" -> 208 [] type = "pitchwheel" -> 224
      [] type = "sysex" -> 240 [] type = "quarter_frame" -> 241 [] type = "songpos" -> 242
      [] type = "song_select" -> 243 [] type = "tune_request" -> 246
      [] type = "end_of_exclusive" -> 247 [] type = "clock" -> 248 [] type = "start" -> 250
      [] type = "continue" -> 251 [] type = "stop" -> 252 [] type = "active_sensing" -> 254
      [] type = "reset" -> 255

\* lines 110-117: the value shown with the status label; int(x / 16)
\* truncates the quotient of the true division
StatusValue(data) ==
    IF HasChannel(data) THEN (StatusByType(data.type) - data.channel) \div 16
    ELSE StatusByType(data.type)
ShowStatus(p, data) ==
    IF p.raised # "none" THEN p ELSE SetLastRow(p, "status", StatusValue(data))

\* lines 119-130: the channel indicators and the channel cell, which holds
\* channel + 1 or the text "Global"
ChanLabelNumber(n) == [kind |-> "int", v |-> n]
ChanLabelGlobal == [kind |-> "str", v |-> 0]
ChanLabelZeroBased(data) == ChanLabelNumber(data.channel)
ChanLabel(data) == ChanLabelNumber(data.channel + 1)
BlinkChannel(p, data, t) ==
    IF p.raised # "none" THEN p
    ELSE IF HasChannel(data)
         THEN SetLastRow(MonBlink(MonBlink(p, Ind("c", 0), t), ChanInd(data.channel), t),
                         "chan", ChanLabel(data))
         ELSE SetLastRow(MonBlink(p, Ind("s", 0), t), "chan", ChanLabelGlobal)

IsZeroVelocityNoteOff(data) ==
    zero_velocity_note_on_is_note_off /\ data.velocity = NOTE_OFF_VELOCITY

\* a note message with the key lit by every note_on, whatever its velocity
DecodeNoteAnyVelocity(p, data, t) ==
    LET q == IF IsZeroVelocityNoteOff(data) THEN MonBlink(p, TypeInd("note_off"), t) ELSE p
        r == IF data.type \in TypesContainingOn
             THEN NoteOn(q, data.note) ELSE NoteOff(q, data.note)
    IN  SetLastRow(SetLastRow(r, "data0", PyInt(data.note)), "data1", PyInt(data.velocity))

\* lines 139-153: a note message
DecodeNote(p, data, t) ==
    LET q == IF IsZeroVelocityNoteOff(data) THEN MonBlink(p, TypeInd("note_off"), t) ELSE p
        r == IF data.type \in TypesContainingOn /\ ~IsZeroVelocityNoteOff(data)
             THEN NoteOn(q, data.note) ELSE NoteOff(q, data.note)
    IN  SetLastRow(SetLastRow(r, "data0", PyInt(data.note)), "data1", PyInt(data.velocity))

\* lines 158-164: a control change
DecodeControlChange(p, data, t) ==
    LET q == MonBlink(p, CcInd(data.control), t) IN
    SetLastRow(SetLastRow(q, "data0", PyInt(data.control)), "data1", PyInt(data.value))

\* lines 174-298: a system exclusive message
DecodeSysex(p, data) ==
    LET s == SysexDecode(data) IN
    IF s.raised # "none" THEN [p EXCEPT !.raised = s.raised]
    ELSE SetLastRow(SetLastRow([p EXCEPT !.syx_values = SyxValues(s)],
                               "data0", PyTuple(data.data)), "data1", PyNone)

\* lines 132-325: Data 1 & 2
DecodeDataElseRaises(p, data, t) ==
    IF p.raised # "none" THEN p
    ELSE IF data.type \in TypesContainingNote THEN DecodeNote(p, data, t)
    ELSE IF data.type = "polytouch"
         THEN SetLastRow(SetLastRow(p, "data0", PyInt(data.note)), "data1", PyInt(data.value))
    ELSE IF data.type = "control_change" THEN DecodeControlChange(p, data, t)
    ELSE IF data.type \in {"program_change", "aftertouch", "pitchwheel"}
         THEN SetLastRow(SetLastRow(p, "data0", PyInt(data.value)), "data1", PyNone)
    ELSE IF data.type = "sysex" THEN DecodeSysex(p, data)
    ELSE IF data.type = "quarter_frame"
         THEN SetLastRow(SetLastRow(p, "data0", PyInt(data.note)), "data1", PyInt(data.value))
    ELSE IF data.type \in {"songpos", "song_select"}
         THEN SetLastRow(SetLastRow(p, "data0", PyInt(data.value)), "data1", PyNone)
    ELSE [p EXCEPT !.raised = "ValueError"]
DecodeData(p, data, t) ==
    IF p.raised # "none" THEN p
    ELSE IF data.type \in TypesContainingNote THEN DecodeNote(p, data, t)
    ELSE IF data.type = "polytouch"
         THEN SetLastRow(SetLastRow(p, "data0", PyInt(data.note)), "data1", PyInt(data.value))
    ELSE IF data.type = "control_change" THEN DecodeControlChange(p, data, t)
    ELSE IF data.type \in {"program_change", "aftertouch", "pitchwheel"}
         THEN SetLastRow(SetLastRow(p, "data0", PyInt(data.value)), "data1", PyNone)
    ELSE IF data.type = "sysex" THEN DecodeSysex(p, data)
    ELSE IF data.type = "quarter_frame"
         THEN SetLastRow(SetLastRow(p, "data0", PyInt(data.note)), "data1", PyInt(data.value))
    ELSE IF data.type \in {"songpos", "song_select"}
         THEN SetLastRow(SetLastRow(p, "data0", PyInt(data.value)), "data1", PyNone)
    ELSE SetLastRow(SetLastRow(p, "data0", PyNone), "data1", PyNone)

\* the whole function, for a message taken at `timestamp` and decoded at time t
AddProbeData(p, timestamp, source, data, t) ==
    LET a == AddRow(p, timestamp, source, data)
        b == AddDelta(a, timestamp, data)
        c == ShowStatus(BlinkStatus(b, data, t), data)
        d == BlinkChannel(c, data, t)
    IN  DecodeData(d, data, t)

\* _clear_probe_data_table (probe.py 43-45)
ClearProbeDataTable(table) == InitDetailsTableData(<<>>)

(***************************************************************************)
(* The connections editor (conn.py).  The input ports' pins are output     *)
(* attributes, the output ports' pins input attributes; the probe has an   *)
(* input attribute probe_in and an output attribute probe_thru.  A link    *)
(* goes from an output attribute to an input attribute.                    *)
(***************************************************************************)
InPorts == {"in1", "in2"}
OutPorts == {"out1", "out2"}
ProbePins == {"probe_in", "probe_thru"}
Pins == InPorts \cup OutPorts \cup ProbePins
OutputAttrs == InPorts \cup {"probe_thru"}
InputAttrs == OutPorts \cup {"probe_in"}

\* dpg.get_item_user_data(pin): a port's pin holds its port
UserData(c, pin) == IF pin \in ProbePins THEN c.pin_user_data[pin] ELSE Some(pin)
IsMidiInPort(ud) == ~IsNone(ud) /\ Val(ud) \in InPorts
IsMidiOutPort(ud) == ~IsNone(ud) /\ Val(ud) \in OutPorts

Conn ==
    [links |-> links, pin_user_data |-> pin_user_data, pin_shape |-> pin_shape,
     in_port |-> in_port, out_open |-> out_open, input_mode |-> input_mode]

\* the connections after create(): nothing linked, nothing open, Callback mode
ConnInit ==
    [links |-> {}, pin_user_data |-> [p \in ProbePins |-> None],
     pin_shape |-> [p \in Pins |-> FALSE],
     in_port |-> [p \in InPorts |-> [open |-> FALSE, dest |-> None, callback |-> FALSE]],
     out_open |-> [p \in OutPorts |-> FALSE], input_mode |-> "Callback"]

\* MidiInPort.open(dest), .callback(), .polling(), .close(); MidiOutPort.open(), .close()
InOpen(c, p, dest) == [c EXCEPT !.in_port[p] = [open |-> TRUE, dest |-> Some(dest), callback |-> FALSE]]
InCallback(c, p) == [c EXCEPT !.in_port[p].callback = TRUE]
InPolling(c, p) == [c EXCEPT !.in_port[p].callback = FALSE]
InClose(c, p) == [c EXCEPT !.in_port[p].open = FALSE, !.in_port[p].callback = FALSE]
OutOpen(c, p) == [c EXCEPT !.out_open[p] = TRUE]
OutClose(c, p) == [c EXCEPT !.out_open[p] = FALSE]

\* _install_input_callback (conn.py 89-97)
InstallInputCallback(c, p, dest) ==
    LET o == InOpen(c, p, dest) IN
    IF c.input_mode = "Callback" THEN InCallback(o, p) ELSE o

\* _link_nodes (conn.py 100-108)
LinkNodes(c, pin1, pin2) ==
    [c EXCEPT !.links = @ \cup {<<pin1, pin2>>},
              !.pin_shape[pin1] = TRUE, !.pin_shape[pin2] = TRUE]

\* conn.py 43-51: only one link per pin
PinAlreadyLinkedAsOutput(c, pin1, pin2) ==
    \E l \in c.links : pin1 = l[1] /\ pin2 = l[2]
PinAlreadyLinked(c, pin1, pin2) ==
    \E l \in c.links : pin1 = l[1] \/ pin2 = l[1] \/ pin1 = l[2] \/ pin2 = l[2]

\* link_node_callback (conn.py 26-86)
LinkNodeCallback(c, pin1, pin2) ==
    LET ud1 == UserData(c, pin1)
        ud2 == UserData(c, pin2)
    IN  IF PinAlreadyLinked(c, pin1, pin2) THEN c
        ELSE IF IsMidiInPort(ud1) /\ IsMidiOutPort(ud2)
             THEN LinkNodes(InstallInputCallback(OutOpen(c, Val(ud2)), Val(ud1), pin2), pin1, pin2)
        ELSE IF IsMidiInPort(ud1)
             THEN LET o == InstallInputCallback(c, Val(ud1), pin2) IN
                  LinkNodes([o EXCEPT !.pin_user_data[pin2] = ud1], pin1, pin2)
        ELSE IF IsMidiOutPort(ud2)
             THEN LET o == OutOpen(c, Val(ud2)) IN
                  LinkNodes([o EXCEPT !.pin_user_data[pin1] = ud2], pin1, pin2)
        ELSE c

\* delink_node_callback without conn.py 147 and 152: ports closed, module pin kept
DelinkNodeCallbackKeepingPin(c, link) ==
    LET pin1 == link[1]
        pin2 == link[2]
        ud1 == UserData(c, pin1)
        ud2 == UserData(c, pin2)
        d == IF IsMidiInPort(ud1) /\ IsMidiOutPort(ud2)
             THEN OutClose(InClose(c, Val(ud1)), Val(ud2))
             ELSE IF IsMidiInPort(ud1)
                  THEN InClose(c, Val(ud1))
             ELSE IF IsMidiOutPort(ud2)
                  THEN OutClose(c, Val(ud2))
             ELSE c
    IN  [d EXCEPT !.links = @ \ {link}, !.pin_shape[pin1] = FALSE, !.pin_shape[pin2] = FALSE]

\* delink_node_callback (conn.py 114-163)
DelinkNodeCallback(c, link) ==
    LET pin1 == link[1]
        pin2 == link[2]
        ud1 == UserData(c, pin1)
        ud2 == UserData(c, pin2)
        d == IF IsMidiInPort(ud1) /\ IsMidiOutPort(ud2)
             THEN OutClose(InClose(c, Val(ud1)), Val(ud2))
             ELSE IF IsMidiInPort(ud1)
                  THEN [InClose(c, Val(ud1)) EXCEPT !.pin_user_data[pin2] = None]
             ELSE IF IsMidiOutPort(ud2)
                  THEN OutClose([c EXCEPT !.pin_user_data[pin1] = None], Val(ud2))
             ELSE c
    IN  [d EXCEPT !.links = @ \ {link}, !.pin_shape[pin1] = FALSE, !.pin_shape[pin2] = FALSE]

\* input_mode_callback (conn.py 166-194).  The radio button's source is the
\* 'input_mode' value, so the value is app_data when the callback runs, also
\* when the callback raises NotImplementedError.
RadioButtonSet(c, app_data) == [c EXCEPT !.input_mode = app_data]
InputModeCallback(c, app_data) ==
    LET pin_user_data_in == c.pin_user_data["probe_in"] IN
    IF ~IsNone(pin_user_data_in)
    THEN [(IF app_data = "Polling" THEN InPolling(c, Val(pin_user_data_in))
           ELSE InCallback(c, Val(pin_user_data_in)))
          EXCEPT !.input_mode = app_data]
    ELSE c

(***************************************************************************)
(* update_blink_status (probe.py 963-1013) at time.time() = t: every       *)
(* indicator whose active-until is before now loses its theme.             *)
(***************************************************************************)
ExpiredAtDeadline(until, now) == until <= now
Expired(until, now) == until < now
IndicatorOf(b) == CHOOSE ind \in Indicators : b \in ButtonsOf(ind)
UpdateBlinkStatusWithoutControllers(th, au, t) ==
    LET now == t - START_TIME IN
    [b \in Buttons |-> IF b.k # "cc" /\ Expired(au[IndicatorOf(b)], now) THEN FALSE ELSE th[b]]
UpdateBlinkStatus(th, au, t) ==
    LET now == t - START_TIME IN
    [b \in Buttons |-> IF Expired(au[IndicatorOf(b)], now) THEN FALSE ELSE th[b]]

(***************************************************************************)
(* The enumeration of the ports (conn.py 216-263, main.py 806-810) and the *)
(* End-of-Exclusive category (probe.py 359-383)                            *)
(***************************************************************************)
Systems == {"Darwin", "Linux", "Windows"}
Range(sq) == {sq[i] : i \in 1 .. Len(sq)}

\* list(OrderedDict.fromkeys(names)): the first occurrence of each name, in order
RECURSIVE FromKeys(_)
FromKeys(names) ==
    IF names = <<>> THEN <<>>
    ELSE LET front == FromKeys(SubSeq(names, 1, Len(names) - 1))
             name == names[Len(names)]
         IN  IF name \in Range(front) THEN front ELSE Append(front, name)

\* _dedupe_port_names (conn.py 216-228)
DedupePortNamesNowhere(names, sys) == names
DedupePortNames(names, sys) ==
    IF sys = "Darwin" \/ sys = "Linux" THEN FromKeys(names) ELSE names

\* _sort_ports (main.py 806-810): sorted(set(names)); the names in their order
SortedNames == <<"in1", "in2", "out1", "out2">>
RECURSIVE SortSet(_, _)
SortSet(S, i) ==
    IF i > Len(SortedNames) THEN <<>>
    ELSE (IF SortedNames[i] \in S THEN <<SortedNames[i]>> ELSE <<>>) \o SortSet(S, i + 1)
SortPorts(names) == SortSet(Range(names), 1)

\* _update_eox_category (probe.py 359-383); the first option is the default
EoxCategories == 1 .. 2
UpdateEoxCategoryShowOnly(shown, category) ==
    IF category = 1
    THEN [shown EXCEPT ![Ind("end_of_exclusive_common", 0)] = TRUE]
    ELSE [shown EXCEPT ![Ind("end_of_exclusive_syx", 0)] = TRUE]
UpdateEoxCategory(shown, category) ==
    IF category = 1
    THEN [shown EXCEPT ![Ind("end_of_exclusive_syx", 0)] = FALSE,
                       ![Ind("end_of_exclusive_common", 0)] = TRUE]
    ELSE [shown EXCEPT ![Ind("end_of_exclusive_common", 0)] = FALSE,
                       ![Ind("end_of_exclusive_syx", 0)] = TRUE]

\* after create(): the ports of the machine enumerated, the EOX buttons
\* created and _update_eox_category called once (probe.py 746)
GuiInit(sys) ==
    /\ system = sys
    /\ midi_inputs = DedupePortNames(<<"in1", "in2">>, sys)
    /\ midi_outputs = DedupePortNames(<<"out1", "out2">>, sys)
    /\ eox_category = 1
    /\ eox_shown = UpdateEoxCategory([b \in EoxButtons |-> TRUE], 1)

(***************************************************************************)
(* Initial state: the state after create() and before any message.         *)
(***************************************************************************)
CbIdle == [pc |-> "idle", msg |-> BlankMsg, ts |-> 0]

InitOn(sys) ==
    /\ clock = START_TIME
    /\ probe_data_counter = 0
    /\ previous_timestamp = Some(START_TIME)
    /\ probe_data_table = InitDetailsTableData(<<>>)
    /\ active_until = [i \in Indicators |-> 0]
    /\ theme = [b \in Buttons |-> FALSE]
    /\ note_theme = [k \in NoteKeys |-> FALSE]
    /\ zero_velocity_note_on_is_note_off = TRUE
    /\ mon_blink_duration = TicksPerSecond \div 4
    /\ GuiInit(sys)
    /\ syx_values = SyxValuesInit
    /\ raised = "none"
    /\ queue = <<>>
    /\ pc = "blink"
    /\ lock = None
    /\ cb = [p \in InPorts |-> CbIdle]
    /\ pending = [p \in InPorts |-> <<>>]
    /\ sent = <<>>
    /\ links = ConnInit.links
    /\ pin_user_data = ConnInit.pin_user_data
    /\ pin_shape = ConnInit.pin_shape
    /\ in_port = ConnInit.in_port
    /\ out_open = ConnInit.out_open
    /\ input_mode = ConnInit.input_mode
    /\ arrivals = 0
    /\ decoded = <<>>
    /\ since_clear = <<>>

\* the model runs on Linux unless a specification draws the platform
Init == InitOn("Linux")

Running == raised = "none"

\* time passes
Tick ==
    /\ Running
    /\ clock < MaxClock
    /\ clock' = clock + 1
    /\ UNCHANGED <<pc, probeVars, prefVars, ioVars, connVars>>

(***************************************************************************)
(* The receive callback (input.py 15-26), on the thread of port p:         *)
(* acquire the lock, take the timestamp, put the entry and release.        *)
(***************************************************************************)
CanAcquireUnlocked(p) == TRUE
CanAcquire(p) == IsNone(lock)

ReceiveCallbackEnter(p, m) ==
    /\ Running
    /\ in_port[p].open /\ in_port[p].callback
    /\ cb[p].pc = "idle"
    /\ arrivals < MaxEvents
    /\ CanAcquire(p)
    /\ lock' = Some(p)
    /\ cb' = [cb EXCEPT ![p] = [pc |-> "locked", msg |-> m, ts |-> 0]]
    /\ arrivals' = arrivals + 1
    /\ UNCHANGED <<clock, pc, probeVars, prefVars, queue, pending, sent, connVars>>

ReceiveCallbackStamp(p) ==
    /\ Running
    /\ cb[p].pc = "locked"
    /\ cb' = [cb EXCEPT ![p].pc = "stamped", ![p].ts = clock]
    /\ UNCHANGED <<clock, pc, probeVars, prefVars, queue, lock, pending, sent, arrivals, connVars>>

\* An entry of the queue: the timestamp and the message, with the port that
\* received it and its destination, by which the main loop routes the entry.
\* `via` records which producer put the entry; the program does not read it.
QueueEntry(timestamp, p, m, via) ==
    [timestamp |-> timestamp, source |-> p, dest |-> in_port[p].dest, msg |-> m, via |-> via]

ReceiveCallbackPut(p) ==
    /\ Running
    /\ cb[p].pc = "stamped"
    /\ queue' = Append(queue, QueueEntry(cb[p].ts, p, cb[p].msg, "callback"))
    /\ lock' = IF lock = Some(p) THEN None ELSE lock
    /\ cb' = [cb EXCEPT ![p] = CbIdle]
    /\ UNCHANGED <<clock, pc, probeVars, prefVars, pending, sent, arrivals, connVars>>

\* a message arrives at an open port that has no callback: the binding keeps it
Arrive(p, m) ==
    /\ Running
    /\ in_port[p].open /\ ~in_port[p].callback
    /\ arrivals < MaxEvents
    /\ pending' = [pending EXCEPT ![p] = Append(@, m)]
    /\ arrivals' = arrivals + 1
    /\ UNCHANGED <<clock, pc, probeVars, prefVars, queue, lock, cb, sent, connVars>>

(***************************************************************************)
(* The main loop: update_blink_status, poll_processing in Polling mode,    *)
(* the drain of the queue through handle_received_data, then the frame.    *)
(***************************************************************************)
BlinkStep ==
    /\ Running
    /\ pc = "blink"
    /\ theme' = UpdateBlinkStatus(theme, active_until, clock)
    /\ pc' = "poll"
    /\ UNCHANGED <<clock, probe_data_counter, previous_timestamp, probe_data_table,
                   active_until, note_theme, syx_values, raised, decoded, since_clear,
                   prefVars, ioVars, connVars>>

\* poll_processing (conn.py 558-585): one iteration of its for loop
PollPutNothing(q, entry) == q
PollPut(q, entry) == Append(q, entry)
PollLock(l) == l
CanPoll ==
    /\ input_mode = "Polling"
    /\ ~IsNone(pin_user_data["probe_in"])
    /\ pending[Val(pin_user_data["probe_in"])] # <<>>

PollOne ==
    /\ Running
    /\ pc = "poll"
    /\ CanPoll
    /\ LET p == Val(pin_user_data["probe_in"]) IN
         /\ queue' = PollPut(queue, QueueEntry(clock, p, Head(pending[p]), "poll"))
         /\ pending' = [pending EXCEPT ![p] = Tail(@)]
    /\ lock' = PollLock(lock)
    /\ UNCHANGED <<clock, pc, probeVars, prefVars, cb, sent, arrivals, connVars>>

PollDone ==
    /\ Running
    /\ pc = "poll"
    /\ ~CanPoll
    /\ pc' = "drain"
    /\ UNCHANGED <<clock, probeVars, prefVars, ioVars, connVars>>

\* port.port.send(midi_data): sending on a closed port raises ValueError
Send(st, port, m) ==
    IF st.raised # "none" THEN st
    ELSE IF out_open[port] THEN [st EXCEPT !.sent = Append(@, [port |-> port, msg |-> m])]
    ELSE [st EXCEPT !.raised = "ValueError"]

\* handle_received_data (conn.py 528-555) for the entry e at time.time() = t
HandleReceivedData(e, t) ==
    LET st0 == [raised |-> "none", sent |-> sent, probe |-> ProbeState, decoded |-> FALSE]
        port == IF IsNone(e.dest) THEN None ELSE UserData(Conn, Val(e.dest))
        st1 == IF IsMidiOutPort(port) THEN Send(st0, Val(port), e.msg) ELSE st0
        thru == pin_user_data["probe_thru"]
        st2 == IF e.dest = Some("probe_in") /\ ~IsNone(thru) THEN Send(st1, Val(thru), e.msg)
               ELSE st1
    IN  IF e.dest = Some("probe_in") /\ st2.raised = "none"
        THEN [st2 EXCEPT !.probe = AddProbeData(ProbeState, e.timestamp, e.source, e.msg, t),
                         !.decoded = TRUE]
        ELSE [st2 EXCEPT !.probe.raised = st2.raised]

LastRow(table, n) == table[CHOOSE i \in 1 .. Len(table) : table[i].label = RowLabel(n)]

HandleOne ==
    /\ Running
    /\ pc = "drain"
    /\ queue # <<>>
    /\ \E r \in {HandleReceivedData(Head(queue), clock)} :
       LET e == Head(queue)
           ev == [timestamp |-> e.timestamp, source |-> e.source, msg |-> e.msg,
                  via |-> e.via, at |-> clock, n |-> Len(decoded) + 1,
                  delta |-> LastRow(r.probe.probe_data_table,
                                    r.probe.probe_data_counter).delta]
       IN  /\ queue' = Tail(queue)
           /\ sent' = r.sent
           /\ probe_data_counter' = r.probe.probe_data_counter
           /\ previous_timestamp' = r.probe.previous_timestamp
           /\ probe_data_table' = r.probe.probe_data_table
           /\ active_until' = r.probe.active_until
           /\ theme' = r.probe.theme
           /\ note_theme' = r.probe.note_theme
           /\ syx_values' = r.probe.syx_values
           /\ raised' = r.probe.raised
           /\ decoded' = IF r.decoded THEN Append(decoded, ev) ELSE decoded
           /\ since_clear' = IF r.decoded THEN Append(since_clear, ev) ELSE since_clear
    /\ UNCHANGED <<clock, pc, prefVars, lock, cb, pending, arrivals, connVars>>

DrainDone ==
    /\ Running
    /\ pc = "drain"
    /\ queue = <<>>
    /\ pc' = "render"
    /\ UNCHANGED <<clock, probeVars, prefVars, ioVars, connVars>>

\* dpg.render_dearpygui_frame()
Render ==
    /\ Running
    /\ pc = "render"
    /\ pc' = "blink"
    /\ UNCHANGED <<clock, probeVars, prefVars, ioVars, connVars>>

(***************************************************************************)
(* The user's actions, handled while a frame is rendered.                  *)
(***************************************************************************)
SetConn(c) ==
    /\ links' = c.links
    /\ pin_user_data' = c.pin_user_data
    /\ pin_shape' = c.pin_shape
    /\ in_port' = c.in_port
    /\ out_open' = c.out_open
    /\ input_mode' = c.input_mode

Link(pin1, pin2) ==
    /\ Running
    /\ pc = "render"
    /\ SetConn(LinkNodeCallback(Conn, pin1, pin2))
    /\ UNCHANGED <<clock, pc, probeVars, prefVars, ioVars>>

Delink(link) ==
    /\ Running
    /\ pc = "render"
    /\ link \in links
    /\ SetConn(DelinkNodeCallback(Conn, link))
    /\ UNCHANGED <<clock, pc, probeVars, prefVars, ioVars>>

InputMode(app_data) ==
    /\ Running
    /\ pc = "render"
    /\ app_data # input_mode
    /\ SetConn(InputModeCallback(RadioButtonSet(Conn, app_data), app_data))
    /\ UNCHANGED <<clock, pc, probeVars, prefVars, ioVars>>

\* the "Clear" button of the probe window
Clear ==
    /\ Running
    /\ pc = "render"
    /\ probe_data_table' = ClearProbeDataTable(probe_data_table)
    /\ since_clear' = <<>>
    /\ UNCHANGED <<clock, pc, probe_data_counter, previous_timestamp, active_until, theme,
                   note_theme, syx_values, raised, decoded, prefVars, ioVars, connVars>>

\* the "0 velocity note-on is note-off" checkbox
SetZeroVelocity(b) ==
    /\ Running
    /\ pc = "render"
    /\ b # zero_velocity_note_on_is_note_off
    /\ zero_velocity_note_on_is_note_off' = b
    /\ UNCHANGED <<clock, pc, probeVars, mon_blink_duration, guiVars, ioVars, connVars>>

\* the "Persistence (s)" slider, 0 to 0.5 s
SetBlinkDuration(d) ==
    /\ Running
    /\ pc = "render"
    /\ d # mon_blink_duration
    /\ mon_blink_duration' = d
    /\ UNCHANGED <<clock, pc, probeVars, zero_velocity_note_on_is_note_off, guiVars, ioVars, connVars>>

(***************************************************************************)
(* The whole program                                                       *)
(***************************************************************************)
Msgs ==
    {NoteMsg("note_on", 0, 0, 0, None), NoteMsg("note_on", 1, 1, 64, None),
     CcMsg(0, 1, 5, None), PlainMsg("clock", Some(1)), SysexMsg(<<65, 0, 1>>, None),
     SysexMsg(<<126, 0, 6, 1>>, None)}

MainLoop == BlinkStep \/ PollOne \/ PollDone \/ HandleOne \/ DrainDone \/ Render

ReceiveCallback(p, M) ==
    \/ \E m \in M : ReceiveCallbackEnter(p, m)
    \/ ReceiveCallbackStamp(p)
    \/ ReceiveCallbackPut(p)

Next ==
    \/ Tick
    \/ \E p \in InPorts : ReceiveCallback(p, Msgs)
    \/ \E p \in InPorts, m \in Msgs : Arrive(p, m)
    \/ MainLoop
    \/ \E pin1 \in OutputAttrs, pin2 \in InputAttrs : Link(pin1, pin2)
    \/ \E l \in links : Delink(l)
    \/ \E m \in {"Callback", "Polling"} : InputMode(m)
    \/ Clear
    \/ \E b \in BOOLEAN : SetZeroVelocity(b)
    \/ \E d \in 0 .. (TicksPerSecond \div 2) : SetBlinkDuration(d)

Spec == Init /\ [][Next]_vars

(***************************************************************************)
(* The decoder alone: one message of any kind, received from the port      *)
(* linked to the probe, is the first one the main loop handles.            *)
(***************************************************************************)
SyxBytes == {0, 1, 6, 32, 41, 65, 126, 127}
SeqsUpTo(S, n) == UNION {[1 .. k -> S] : k \in 0 .. n}
Times == {None, Some(0), Some(1)}
SysexMsgs == {SysexMsg(d, None) : d \in SeqsUpTo(SyxBytes, MaxSyxLen)}
OtherMsgs ==
    {NoteMsg(t, ch, n, v, tm) : t \in {"note_on", "note_off"}, ch \in {0, 15},
                                      n \in NoteKeys, v \in {0, 64}, tm \in Times}
    \cup {SysexMsg(<<65, 0, 1>>, tm) : tm \in Times}
    \cup {CcMsg(ch, c, 5, tm) : ch \in {0, 15}, c \in Controllers, tm \in Times}
    \cup {PlainMsg(t, tm) : t \in MsgTypes \ {"sysex", "note_on", "note_off", "control_change"},
                            tm \in Times}

\* the message, the option, the time it is received and the time it is decoded
DecodeInputs ==
    [msg : SysexMsgs, zero : {TRUE}, ts : {START_TIME}, at : {START_TIME + 1}]
    \cup {[msg |-> m, zero |-> z, ts |-> ts, at |-> at] :
              m \in OtherMsgs, z \in BOOLEAN,
              ts \in START_TIME .. START_TIME + 1, at \in START_TIME .. START_TIME + 1}

ConnProbeLinked == LinkNodeCallback(ConnInit, "in1", "probe_in")

InitDecode ==
    /\ \E i \in {x \in DecodeInputs : x.ts <= x.at} :
           /\ clock = i.at
           /\ zero_velocity_note_on_is_note_off = i.zero
           /\ queue = <<[timestamp |-> i.ts, source |-> "in1", dest |-> Some("probe_in"),
                         msg |-> i.msg, via |-> "callback"]>>
    /\ probe_data_counter = 0
    /\ previous_timestamp = Some(START_TIME)
    /\ probe_data_table = InitDetailsTableData(<<>>)
    /\ active_until = [i \in Indicators |-> 0]
    /\ theme = [b \in Buttons |-> FALSE]
    /\ note_theme = [k \in NoteKeys |-> FALSE]
    /\ mon_blink_duration = TicksPerSecond \div 4
    /\ GuiInit("Linux")
    /\ syx_values = SyxValuesInit
    /\ raised = "none"
    /\ links = ConnProbeLinked.links
    /\ pin_user_data = ConnProbeLinked.pin_user_data
    /\ pin_shape = ConnProbeLinked.pin_shape
    /\ in_port = ConnProbeLinked.in_port
    /\ out_open = ConnProbeLinked.out_open
    /\ input_mode = ConnProbeLinked.input_mode
    /\ pc = "drain"
    /\ lock = None
    /\ cb = [p \in InPorts |-> CbIdle]
    /\ pending = [p \in InPorts |-> <<>>]
    /\ sent = <<>>
    /\ arrivals = 1
    /\ decoded = <<>>
    /\ since_clear = <<>>

NextDecode == HandleOne

SpecDecode == InitDecode /\ [][NextDecode]_vars

(***************************************************************************)
(* Claims about the decoder                                                *)
(***************************************************************************)
Last(sq) == sq[Len(sq)]
Handled == decoded # <<>>
LastMsg == Last(decoded).msg
BlinkUntil(ev) == ev.at - START_TIME + mon_blink_duration

\* C1: with zero_velocity_note_on_is_note_off true, decoding a note_on with
\* velocity 0 sets the active-until of note_off and neither sets the
\* active-until of note_on nor highlights it.  (The decoder marks note_on
\* through its status indicator, so the code does not satisfy this.)
C1_ZeroVelocityNoteOnMarksOnlyNoteOff ==
    (/\ Len(decoded) = 1
     /\ LastMsg.type = "note_on"
     /\ LastMsg.velocity = 0
     /\ zero_velocity_note_on_is_note_off)
    => /\ active_until[TypeInd("note_off")] = BlinkUntil(Last(decoded))
       /\ theme[TypeInd("note_off")]
       /\ active_until[TypeInd("note_on")] = 0
       /\ ~theme[TypeInd("note_on")]

\* C2: the first event of a session, carrying no device-reported delta, gets
\* the delta 0.32 ms.  (previous_timestamp starts at START_TIME, never None,
\* so the code computes the time since the program started instead.)
C2_FirstEventDeltaIsDefault ==
    (Len(decoded) = 1 /\ IsNone(LastMsg.time)) => Last(decoded).delta = DeltaDefault

\* C3: a sysex payload [0x7E, deviceId, s1, s2, ...] decodes without error to
\* sub-ID#1 = s1 with its non-real-time label and, when s1 has a sub-ID#2
\* table, to sub-ID#2 = s2 with its nested label.  (The code subscripts the
\* message instead of its bytes, which raises TypeError.)
IsNonRealTime(m) == m.type = "sysex" /\ Len(m.data) >= 3 /\ m.data[1] = 126
C3_NonRealTimeSubIdsDecoded ==
    (Handled /\ IsNonRealTime(LastMsg)
        /\ (LastMsg.data[3] \in NonRealTimeSubId2Keys => Len(LastMsg.data) >= 4))
    => /\ raised = "none"
       /\ syx_values.syx_sub_id1 = Some(LastMsg.data[3])
       /\ syx_values.syx_sub_id1_label = NonRealTimeSubId1(LastMsg.data[3])
       /\ LastMsg.data[3] \in NonRealTimeSubId2Keys
            => /\ syx_values.syx_sub_id2 = Some(LastMsg.data[4])
               /\ syx_values.syx_sub_id2_label
                    = NonRealTimeSubId2(LastMsg.data[3], LastMsg.data[4])

\* C4: whatever the length of a sysex payload, decoding it raises nothing.
\* (The code subscripts the payload without checking its length.)
C4_SysexNeverRaises ==
    (Handled /\ LastMsg.type = "sysex") => raised = "none"

(***************************************************************************)
(* The probe: one port linked to the probe in Callback mode, its messages  *)
(* decoded by the main loop while time passes and the user clears the      *)
(* history.                                                                *)
(***************************************************************************)
ProbeMsgs == {NoteMsg("note_on", 0, 0, 64, None), PlainMsg("clock", Some(1))}

NextProbe ==
    \/ Tick
    \/ Link("in1", "probe_in")
    \/ \E m \in ProbeMsgs : ReceiveCallbackEnter("in1", m)
    \/ ReceiveCallbackStamp("in1")
    \/ ReceiveCallbackPut("in1")
    \/ BlinkStep
    \/ PollDone
    \/ HandleOne
    \/ DrainDone
    \/ Render
    \/ Clear

SpecProbe == Init /\ [][NextProbe]_vars

Now == clock - START_TIME

RowOf(ev) ==
    [label |-> RowLabel(ev.n), source |-> ev.source,
     ts |-> ToMs(ev.timestamp - START_TIME), type |-> ev.msg.type]
RowKey(row) == [label |-> row.label, source |-> row.source, ts |-> row.ts, type |-> row.type]
C10_HistoryIsEventsSinceClear ==
    /\ Len(probe_data_table) = 1 + Len(since_clear)
    /\ probe_data_table[1] = PlaceholderRow
    /\ \A i \in 1 .. Len(since_clear) : RowKey(probe_data_table[i + 1]) = RowOf(since_clear[i])

\* an event was decoded, the history cleared, and another event decoded
C10_EventAfterClear ==
    /\ Len(decoded) = 2
    /\ Len(since_clear) = 1
    /\ Len(probe_data_table) = 2

(***************************************************************************)
(* Input and output: one port linked to the probe and one to an output     *)
(* port, messages received through the callback or polled, the input mode  *)
(* switched by the user, and the main loop handling the queue.             *)
(***************************************************************************)
IOMsgs == {PlainMsg("clock", None)}

NextIO ==
    \/ Tick
    \/ Link("in1", "probe_in")
    \/ Link("in2", "out1")
    \/ \E m \in {"Callback", "Polling"} : InputMode(m)
    \/ \E p \in InPorts, m \in IOMsgs : ReceiveCallbackEnter(p, m)
    \/ \E p \in InPorts : ReceiveCallbackStamp(p)
    \/ \E p \in InPorts : ReceiveCallbackPut(p)
    \/ \E p \in InPorts, m \in IOMsgs : Arrive(p, m)
    \/ BlinkStep
    \/ PollOne
    \/ PollDone
    \/ HandleOne
    \/ DrainDone
    \/ Render

SpecIO == Init /\ [][NextIO]_vars

\* C6: every delta is at least 0 and, when the message carries no device
\* delta, it is the milliseconds between the event's timestamp and the
\* timestamp of the event processed immediately before it.  (A polled entry
\* can be put on the queue before an entry that a callback stamped earlier
\* and had not put yet, so the code computes a negative delta.)
C6_DeltaIsTimeSincePrevious ==
    \A i \in 1 .. Len(decoded) :
        /\ decoded[i].delta.v >= 0
        /\ (i > 1 /\ IsNone(decoded[i].msg.time))
             => decoded[i].delta.v = ToMs(decoded[i].timestamp - decoded[i - 1].timestamp)

\* C7: an invocation of receive_callback takes its timestamp and puts its
\* entry while it alone holds the lock, it puts exactly one entry, and the
\* entries the callbacks put are in the queue in the order of their timestamps.
CallbackEntries(q) == SelectSeq(q, LAMBDA e : e.via = "callback")
NonDecreasing(q) == \A i, j \in 1 .. Len(q) : i <= j => q[i].timestamp <= q[j].timestamp
InCallbackBody(p) == cb[p].pc # "idle"
C7_LockedInvocations ==
    /\ NonDecreasing(CallbackEntries(queue))
    /\ \A p \in InPorts : InCallbackBody(p) =>
          /\ lock = Some(p)
          /\ \A o \in InPorts \ {p} : ~InCallbackBody(o)
          /\ cb[p].pc = "stamped" =>
                \A i \in 1 .. Len(queue) :
                    queue[i].via = "callback" => queue[i].timestamp <= cb[p].ts
C7_OneEntryPerInvocation ==
    /\ \A p \in InPorts : (InCallbackBody(p) /\ ~InCallbackBody(p)') =>
          queue' = Append(queue, [timestamp |-> cb[p].ts, source |-> p, dest |-> in_port[p].dest,
                                  msg |-> cb[p].msg, via |-> "callback"])
    /\ Len(CallbackEntries(queue')) > Len(CallbackEntries(queue)) =>
          \E p \in InPorts : InCallbackBody(p) /\ ~InCallbackBody(p)'
C9_OpenPortsFollowInputMode ==
    \A p \in InPorts :
        in_port[p].open => (in_port[p].callback <=> input_mode = "Callback")

(***************************************************************************)
(* Further claims about the decoder                                        *)
(***************************************************************************)
HandledRow == LastRow(probe_data_table, probe_data_counter)

\* C11: the channel label of an event is channel + 1, a number from 1 to 16,
\* when the event has a channel, and "Global" when it has none; it is
\* "Global" only when the event has no channel.
C11_ChannelLabel ==
    Handled =>
        /\ HasChannel(LastMsg) =>
              /\ HandledRow.chan = ChanLabelNumber(LastMsg.channel + 1)
              /\ HandledRow.chan.v \in 1 .. NumChannels
        /\ ~HasChannel(LastMsg) => HandledRow.chan = ChanLabelGlobal
        /\ HandledRow.chan = ChanLabelGlobal <=> LastMsg.type \in SystemTypes

\* a message on the last channel was decoded and labelled 16
C11_LastChannelLabelled ==
    /\ Handled
    /\ LastMsg.type = "control_change"
    /\ LastMsg.channel = NumChannels - 1
    /\ HandledRow.chan = ChanLabelNumber(NumChannels)

\* C12: decoding one event at time now sets the active-until of exactly these
\* indicators to now + mon_blink_duration: its type; 'c' and its channel when
\* it has a channel, else 's'; its controller when it is a control change;
\* note_off when it is a note message with velocity 0 and the option is on.
\* The active-until of every other indicator is unchanged.
MarkedBy(data) ==
    {TypeInd(data.type)}
    \cup (IF data.type \in ChannelTypes THEN {Ind("c", 0), ChanInd(data.channel)}
          ELSE {Ind("s", 0)})
    \cup (IF data.type = "control_change" THEN {CcInd(data.control)} ELSE {})
    \cup (IF /\ data.type \in {"note_on", "note_off"}
             /\ data.velocity = 0
             /\ zero_velocity_note_on_is_note_off
          THEN {TypeInd("note_off")} ELSE {})
C12_DecodeMarksItsIndicators ==
    [][(HandleOne /\ Head(queue).dest = Some("probe_in")) =>
          \A ind \in Indicators :
              active_until'[ind] = IF ind \in MarkedBy(Head(queue).msg)
                                   THEN Now + mon_blink_duration
                                   ELSE active_until[ind]]_vars

\* a control change was decoded: its controller is marked, note_on is not
C12_ControlChangeMarked ==
    /\ Handled
    /\ LastMsg.type = "control_change"
    /\ active_until[CcInd(LastMsg.control)] = BlinkUntil(Last(decoded))
    /\ active_until[TypeInd("control_change")] = BlinkUntil(Last(decoded))
    /\ active_until[ChanInd(LastMsg.channel)] = BlinkUntil(Last(decoded))
    /\ BlinkUntil(Last(decoded)) > 0
    /\ active_until[TypeInd("note_on")] = 0

\* C13: after _add_probe_data has processed an event, previous_timestamp is
\* that event's timestamp, whether or not the device's delta was used; no
\* other operation, clearing the history included, changes previous_timestamp.
C13_PreviousTimestampFollowsEvents ==
    [][IF HandleOne /\ Head(queue).dest = Some("probe_in")
       THEN previous_timestamp' = Some(Head(queue).timestamp)
       ELSE previous_timestamp' = previous_timestamp]_vars

\* an event with a device delta was decoded after the program's first tick
\* and the history was then cleared
C13_DeviceDeltaEventThenClear ==
    /\ Handled
    /\ since_clear = <<>>
    /\ ~IsNone(LastMsg.time)
    /\ Last(decoded).timestamp > START_TIME
    /\ previous_timestamp = Some(Last(decoded).timestamp)

\* C14: for a sysex payload that holds at least the ID and the device ID, the
\* ID is bytes 0..2 when byte 0 is 0x00 and byte 0 alone otherwise, and the
\* device ID is the byte right after the ID; <<0x00, 0x20, 0x29, d, ...>> has
\* the label "Novation EMS" and <<0x41, d, ...>> the label "Roland".  The
\* decoder's variables hold these values, and the GUI's values hold them
\* whenever the decoding ends without an exception.
IdLenOf(bytes) == IF bytes[1] = 0 THEN 3 ELSE 1
HoldsIdAndDeviceId(bytes) == Len(bytes) >= 1 /\ Len(bytes) >= IdLenOf(bytes) + 1
C14_IdAndDeviceIdOf(bytes, s) ==
    /\ s.syx_id_len = IdLenOf(bytes)
    /\ s.syx_id = SubSeq(bytes, 1, IdLenOf(bytes))
    /\ s.syx_device_id = Some(bytes[IdLenOf(bytes) + 1])
    /\ (Len(bytes) >= 3 /\ SubSeq(bytes, 1, 3) = <<0, 32, 41>>)
          => s.syx_id_label = "Novation EMS"
    /\ bytes[1] = 65 => s.syx_id_label = "Roland"
C14_ManufacturerAndDeviceId ==
    (Handled /\ LastMsg.type = "sysex" /\ HoldsIdAndDeviceId(LastMsg.data)) =>
        /\ C14_IdAndDeviceIdOf(LastMsg.data, SysexDecode(LastMsg))
        /\ raised = "none" =>
              /\ syx_values.syx_id = SubSeq(LastMsg.data, 1, IdLenOf(LastMsg.data))
              /\ syx_values.syx_id_label = SysexDecode(LastMsg).syx_id_label
              /\ syx_values.syx_device_id = Some(LastMsg.data[IdLenOf(LastMsg.data) + 1])

\* <<0x00, 0x20, 0x29, 6>> was decoded: the GUI shows Novation EMS, device 6
C14_NovationDecoded ==
    /\ Handled
    /\ LastMsg.data = <<0, 32, 41, 6>>
    /\ raised = "none"
    /\ syx_values.syx_id = <<0, 32, 41>>
    /\ syx_values.syx_id_label = "Novation EMS"
    /\ syx_values.syx_device_id = Some(6)

\* C15: the label of a manufacturer ID is the entry of the 1-byte table, or
\* the entry reached through the table of the 3-byte IDs, its region and the
\* ID, or "Undefined"; when a level has no entry the label is "Undefined" and
\* the lookup raises nothing.
HoldsId(bytes) == Len(bytes) >= 1 /\ Len(bytes) >= IdLenOf(bytes)
LabelOfId(bytes) ==
    IF bytes[1] # 0 THEN Manufacturer1(bytes[1])
    ELSE IF bytes[2] \in ManufacturerRegions THEN Manufacturer3(bytes[2], bytes[3])
    ELSE "Undefined"
C15_LabelIsEntryOrUndefined ==
    (Handled /\ LastMsg.type = "sysex" /\ HoldsId(LastMsg.data)) =>
        /\ SysexDecode(LastMsg).syx_id_label = LabelOfId(LastMsg.data)
        /\ raised # "KeyError"
        /\ raised = "none" => syx_values.syx_id_label = LabelOfId(LastMsg.data)

\* <<0x00, 0x01, 0x01, 6>> was decoded: 0x01 is no region of the table
C15_UnknownRegionDecoded ==
    /\ Handled
    /\ LastMsg.data = <<0, 1, 1, 6>>
    /\ raised = "none"
    /\ syx_values.syx_id_label = "Undefined"

\* C16: sub-IDs are read only when the ID is the 1-byte ID 0x7E or 0x7F;
\* for every other ID, a 3-byte ID holding 0x7E or 0x7F included, both stay
\* unresolved; in every case the undecoded payload is the bytes after the
\* last resolved field.  (For the ID 0x7E the code raises TypeError before
\* the payload is computed.)
IsUniversal(bytes) == bytes[1] \in {126, 127}
SubId2KeysOf(bytes) == IF bytes[1] = 126 THEN NonRealTimeSubId2Keys ELSE RealTimeSubId2Keys
ResolvedFields(bytes) ==
    IF ~IsUniversal(bytes) THEN IdLenOf(bytes) + 1
    ELSE IF Len(bytes) >= 3 /\ bytes[3] \in SubId2KeysOf(bytes) THEN 4 ELSE 3
HoldsResolvedFields(bytes) == HoldsIdAndDeviceId(bytes) /\ Len(bytes) >= ResolvedFields(bytes)
C16_SubIdsAndPayload ==
    (Handled /\ LastMsg.type = "sysex" /\ HoldsResolvedFields(LastMsg.data)) =>
        /\ raised = "none"
        /\ ~IsUniversal(LastMsg.data) =>
              syx_values.syx_sub_id1 = None /\ syx_values.syx_sub_id2 = None
        /\ syx_values.syx_payload
              = Some(SubSeq(LastMsg.data, ResolvedFields(LastMsg.data) + 1, Len(LastMsg.data)))

(***************************************************************************)
(* Two events decoded one after the other                                  *)
(***************************************************************************)
FirstMsgs ==
    {SysexMsg(d, None) : d \in SeqsUpTo({0, 65, 127}, MaxSyxLen - 1)}
    \cup {PlainMsg("clock", None)}
SecondMsgs ==
    {PlainMsg("clock", None), NoteMsg("note_on", 0, 0, 64, None), SysexMsg(<<65, 0>>, None)}

InitDecodeTwo ==
    /\ \E m1 \in FirstMsgs, m2 \in SecondMsgs :
           queue = <<[timestamp |-> START_TIME, source |-> "in1", dest |-> Some("probe_in"),
                      msg |-> m1, via |-> "callback"],
                     [timestamp |-> START_TIME + 1, source |-> "in1", dest |-> Some("probe_in"),
                      msg |-> m2, via |-> "callback"]>>
    /\ clock = START_TIME + 1
    /\ zero_velocity_note_on_is_note_off = TRUE
    /\ probe_data_counter = 0
    /\ previous_timestamp = Some(START_TIME)
    /\ probe_data_table = InitDetailsTableData(<<>>)
    /\ active_until = [i \in Indicators |-> 0]
    /\ theme = [b \in Buttons |-> FALSE]
    /\ note_theme = [k \in NoteKeys |-> FALSE]
    /\ mon_blink_duration = TicksPerSecond \div 4
    /\ GuiInit("Linux")
    /\ syx_values = SyxValuesInit
    /\ raised = "none"
    /\ links = ConnProbeLinked.links
    /\ pin_user_data = ConnProbeLinked.pin_user_data
    /\ pin_shape = ConnProbeLinked.pin_shape
    /\ in_port = ConnProbeLinked.in_port
    /\ out_open = ConnProbeLinked.out_open
    /\ input_mode = ConnProbeLinked.input_mode
    /\ pc = "drain"
    /\ lock = None
    /\ cb = [p \in InPorts |-> CbIdle]
    /\ pending = [p \in InPorts |-> <<>>]
    /\ sent = <<>>
    /\ arrivals = 2
    /\ decoded = <<>>
    /\ since_clear = <<>>

SpecDecodeTwo == InitDecodeTwo /\ [][NextDecode]_vars

\* C17: after an event is decoded, the SysEx values are those of the event
\* when it is a sysex event and are empty when it is not; a non-sysex event
\* leaves no values of an earlier sysex event.  (The code writes the values
\* in the sysex branch only.)
C17_SysexValuesDescribeLastEvent ==
    (Handled /\ raised = "none") =>
        syx_values = IF LastMsg.type = "sysex" THEN SyxValues(SysexDecode(LastMsg))
                     ELSE SyxValuesInit

(***************************************************************************)
(* Connections made while some ports cannot be opened.  bad is the set of  *)
(* the ports whose open() fails; a failing open() either raises or returns *)
(* with the port closed (how).  link_node_callback has no try/except and   *)
(* tests no result of open().                                              *)
(***************************************************************************)
OpenOutcomes == {"raise", "return"}
Attempt(c) == [c |-> c, exc |-> "none"]

\* pin2_user_data.open() (conn.py 64, 75)
TryOutOpen(r, p, bad, how) ==
    IF r.exc # "none" THEN r
    ELSE IF p \in bad THEN (IF how = "raise" THEN [r EXCEPT !.exc = "IOError"] ELSE r)
    ELSE [r EXCEPT !.c = OutOpen(r.c, p)]

\* _install_input_callback (conn.py 89-97) around in_port.open(dest)
TryInstallInputCallback(r, p, dest, bad, how) ==
    IF r.exc # "none" THEN r
    ELSE IF p \in bad THEN (IF how = "raise" THEN [r EXCEPT !.exc = "IOError"] ELSE r)
    ELSE [r EXCEPT !.c = InstallInputCallback(r.c, p, dest)]

\* the statements after the opens run only when nothing was raised
Then(r, c) == IF r.exc # "none" THEN r ELSE [r EXCEPT !.c = c]

\* link_node_callback (conn.py 26-86)
LinkNodeCallbackOpening(c, pin1, pin2, bad, how) ==
    LET ud1 == UserData(c, pin1)
        ud2 == UserData(c, pin2)
    IN  IF PinAlreadyLinked(c, pin1, pin2) THEN Attempt(c)
        ELSE IF IsMidiInPort(ud1) /\ IsMidiOutPort(ud2)
             THEN LET o == TryInstallInputCallback(TryOutOpen(Attempt(c), Val(ud2), bad, how),
                                                   Val(ud1), pin2, bad, how)
                  IN  Then(o, LinkNodes(o.c, pin1, pin2))
        ELSE IF IsMidiInPort(ud1)
             THEN LET o == TryInstallInputCallback(Attempt(c), Val(ud1), pin2, bad, how)
                  IN  Then(o, LinkNodes([o.c EXCEPT !.pin_user_data[pin2] = ud1], pin1, pin2))
        ELSE IF IsMidiOutPort(ud2)
             THEN LET o == TryOutOpen(Attempt(c), Val(ud2), bad, how)
                  IN  Then(o, LinkNodes([o.c EXCEPT !.pin_user_data[pin1] = ud2], pin1, pin2))
        ELSE Attempt(c)

LinkOpening(pin1, pin2, bad, how) ==
    /\ Running
    /\ pc = "render"
    /\ SetConn(LinkNodeCallbackOpening(Conn, pin1, pin2, bad, how).c)
    /\ UNCHANGED <<clock, pc, probeVars, prefVars, ioVars>>

LinkAttempts == {<<"in1", "out1">>, <<"in1", "probe_in">>, <<"probe_thru", "out2">>}
BadPorts == SUBSET {"in1", "out1", "out2"}

NextConn ==
    \/ Tick
    \/ BlinkStep
    \/ PollDone
    \/ DrainDone
    \/ Render
    \/ \E a \in LinkAttempts, bad \in BadPorts, how \in OpenOutcomes :
           LinkOpening(a[1], a[2], bad, how)
    \/ \E l \in LinkAttempts : Delink(l)
    \/ \E m \in {"Callback", "Polling"} : InputMode(m)

SpecConn == Init /\ [][NextConn]_vars

\* the attempt opens a port that cannot be opened
OpenFails(c, pin1, pin2, bad) ==
    /\ ~PinAlreadyLinked(c, pin1, pin2)
    /\ \/ IsMidiInPort(UserData(c, pin1)) /\ pin1 \in bad
       \/ IsMidiOutPort(UserData(c, pin2)) /\ pin2 \in bad

\* C18: when a port cannot be opened during link_node_callback the attempt
\* is aborted and no exception escapes: no link is added, no pin's attached
\* port or shape changes, and no port opened earlier in the attempt stays
\* open.  (The code opens the ports without handling a failure.)
C18_FailedOpenAbortsAttempt ==
    [][\A a \in LinkAttempts, bad \in BadPorts, how \in OpenOutcomes :
           (LinkOpening(a[1], a[2], bad, how) /\ OpenFails(Conn, a[1], a[2], bad))
           => /\ LinkNodeCallbackOpening(Conn, a[1], a[2], bad, how).exc = "none"
              /\ UNCHANGED <<links, pin_user_data, pin_shape, in_port, out_open>>]_vars

(***************************************************************************)
(* The drain of the queue: one port linked to the probe in Callback mode,  *)
(* its callbacks putting messages while the main loop runs.  The main      *)
(* thread takes its next step whenever it has one.                         *)
(***************************************************************************)
DrainMsgs == {PlainMsg("clock", None), SysexMsg(<<126, 0, 1>>, None)}
Drain == HandleOne \/ DrainDone

NextDrain ==
    \/ Link("in1", "probe_in")
    \/ \E m \in DrainMsgs : ReceiveCallbackEnter("in1", m)
    \/ ReceiveCallbackStamp("in1")
    \/ ReceiveCallbackPut("in1")
    \/ BlinkStep
    \/ PollDone
    \/ HandleOne
    \/ DrainDone
    \/ Render

SpecDrain == Init /\ [][NextDrain]_vars /\ WF_vars(Drain)

\* C19: each tick the consumer processes every pending message, in arrival
\* order, before it renders the frame, and it never waits: the drain ends
\* only with no message pending, a message leaves the queue from its head by
\* being processed, and a drain that has started ends.  (A message whose
\* decoding raises ends the program with the later messages unprocessed.)
C19_DrainProcessesPendingAndEnds ==
    /\ [][(pc = "drain" /\ pc' # "drain") => queue = <<>>]_vars
    /\ [][Len(queue') < Len(queue) =>
            /\ queue' = Tail(queue)
            /\ Len(decoded') = Len(decoded) + 1
            /\ Last(decoded').msg = Head(queue).msg]_vars
    /\ (pc = "drain") ~> (queue = <<>>)
    /\ (pc = "drain") ~> (pc = "render")

\* C20: for an event whose type is none of the types the decoding of the
\* data recognises, _add_probe_data raises nothing, data0 and data1 are both
\* None, and the event still has exactly one row in the history.
DataTypes ==
    TypesContainingNote \cup
    {"polytouch", "control_change", "program_change", "aftertouch", "pitchwheel",
     "sysex", "quarter_frame", "songpos", "song_select"}
RowsOf(n) == {i \in 1 .. Len(probe_data_table) : probe_data_table[i].label = RowLabel(n)}
C20_UnrecognisedTypeDecodesEmpty ==
    (Handled /\ LastMsg.type \notin DataTypes) =>
        /\ raised = "none"
        /\ probe_data_counter = Len(decoded)
        /\ Cardinality(RowsOf(probe_data_counter)) = 1
        /\ Len(probe_data_table) = Len(decoded) + 1
        /\ HandledRow.type = LastMsg.type
        /\ HandledRow.data0 = PyNone
        /\ HandledRow.data1 = PyNone

\* a clock message was decoded
C20_ClockDecoded ==
    /\ Handled
    /\ LastMsg.type = "clock"
    /\ raised = "none"
    /\ HandledRow.data0 = PyNone
    /\ HandledRow.data1 = PyNone

(***************************************************************************)
(* The enumeration of the ports: refresh_midi_ports on each platform, for  *)
(* the lists of names the MIDI binding may return, while the user also     *)
(* changes the End-of-Exclusive category and links a listed port to the    *)
(* probe.                                                                  *)
(***************************************************************************)
InNameLists == SeqsUpTo(InPorts, MaxNames)
OutNameLists == SeqsUpTo({"out1"}, MaxNames)

\* refresh_midi_ports (conn.py 247-345): the links are deleted and the pins
\* of the ports are created again; no port is closed and the probe's pins
\* are left as they are
RefreshMidiPorts(ins, outs) ==
    /\ Running
    /\ pc = "render"
    /\ midi_inputs' = DedupePortNames(ins, system)
    /\ midi_outputs' = DedupePortNames(outs, system)
    /\ links' = {}
    /\ pin_shape' = [p \in Pins |-> IF p \in ProbePins THEN pin_shape[p] ELSE FALSE]
    /\ UNCHANGED <<clock, pc, probeVars, zero_velocity_note_on_is_note_off,
                   mon_blink_duration, system, eox_category, eox_shown, ioVars,
                   pin_user_data, in_port, out_open, input_mode>>

\* the "EOX is a" radio button (probe.py 503-508): its source is the
\* 'eox_category' value, its callback _update_eox_category
SetEoxCategory(category) ==
    /\ Running
    /\ pc = "render"
    /\ category # eox_category
    /\ eox_category' = category
    /\ eox_shown' = UpdateEoxCategory(eox_shown, category)
    /\ UNCHANGED <<clock, pc, probeVars, zero_velocity_note_on_is_note_off,
                   mon_blink_duration, system, midi_inputs, midi_outputs, ioVars, connVars>>

InitPorts == \E sys \in Systems : InitOn(sys)

NextPorts ==
    \/ BlinkStep
    \/ PollDone
    \/ DrainDone
    \/ Render
    \/ \E ins \in InNameLists, outs \in OutNameLists : RefreshMidiPorts(ins, outs)
    \/ \E category \in EoxCategories : SetEoxCategory(category)
    \/ ("in1" \in Range(midi_inputs) /\ Link("in1", "probe_in"))

SpecPorts == InitPorts /\ [][NextPorts]_vars

NoRepeat(sq) == \A i, j \in 1 .. Len(sq) : sq[i] = sq[j] => i = j
Deduplicated(names, result) == NoRepeat(result) /\ Range(result) = Range(names)

\* C21 as stated: on every platform the enumeration yields a list without a
\* repeated name that holds exactly the distinct names the binding
\* returned, and deduplicating twice is deduplicating once.
C21_EnumerationDeduplicates ==
    [][\A ins \in InNameLists, outs \in OutNameLists :
           RefreshMidiPorts(ins, outs) =>
               /\ Deduplicated(ins, midi_inputs')
               /\ Deduplicated(outs, midi_outputs')
               /\ DedupePortNames(midi_inputs', system) = midi_inputs']_vars

\* C21: on Darwin and Linux the enumeration yields a list without a repeated
\* name that holds exactly the distinct names the binding returned, in the
\* order of their first occurrence; on any other platform it yields the
\* binding's list unchanged; deduplicating twice is deduplicating once on
\* every platform.  sorted(set(names)) of _sort_ports has no repeated name
\* and the same names on every platform.
C21_EnumerationDeduplicatesOnDarwinAndLinux ==
    [][\A ins \in InNameLists, outs \in OutNameLists :
           RefreshMidiPorts(ins, outs) =>
               /\ system \in {"Darwin", "Linux"} =>
                      /\ Deduplicated(ins, midi_inputs')
                      /\ Deduplicated(outs, midi_outputs')
                      /\ \A i, j \in 1 .. Len(midi_inputs') :
                             i < j => \E k, l \in 1 .. Len(ins) :
                                        /\ k < l /\ ins[k] = midi_inputs'[i]
                                        /\ ins[l] = midi_inputs'[j]
                                        /\ \A m \in 1 .. l - 1 : ins[m] # ins[l]
               /\ system \notin {"Darwin", "Linux"} =>
                      midi_inputs' = ins /\ midi_outputs' = outs
               /\ DedupePortNames(midi_inputs', system) = midi_inputs'
               /\ Deduplicated(ins, SortPorts(ins))
               /\ SortPorts(SortPorts(ins)) = SortPorts(ins)]_vars

\* on Linux the ports were enumerated again, with in2 listed first
C21_EnumeratedOnLinux ==
    system = "Linux" /\ midi_inputs = <<"in2", "in1">> /\ midi_outputs = <<"out1">>

\* C22: for a channel-scoped event on any channel 0..15 the status value
\* shown with the status label is the high nibble of the type's base status
\* byte (8 for note-off up to 14 for pitchwheel), whatever the channel.  (The
\* code subtracts the channel from a status byte that does not hold it.)
C22_StatusValueIsHighNibble ==
    (Handled /\ HasChannel(LastMsg)) =>
        HandledRow.status = StatusByType(LastMsg.type) \div 16

(***************************************************************************)
(* The probe while ticks keep running and time advances: the main loop     *)
(* takes its next step whenever it has one, and the clock advances.        *)
(***************************************************************************)
BlinkMsgs == {CcMsg(0, 1, 5, None), PlainMsg("clock", None)}

NextBlink ==
    \/ Tick
    \/ Link("in1", "probe_in")
    \/ \E m \in BlinkMsgs : ReceiveCallbackEnter("in1", m)
    \/ ReceiveCallbackStamp("in1")
    \/ ReceiveCallbackPut("in1")
    \/ BlinkStep
    \/ PollDone
    \/ HandleOne
    \/ DrainDone
    \/ Render

\* the step of HandleOne as the scheduler sees it: the main loop takes the
\* entry at the head of the queue
QueueGet == Running /\ pc = "drain" /\ queue # <<>> /\ queue' = Tail(queue)
CanHandle == Running /\ pc = "drain" /\ queue # <<>>

\* weak fairness of each step of the main loop; CanHandle is ENABLED HandleOne
\* and a HandleOne step is the step that takes the head of the queue
MainLoopRuns ==
    /\ WF_vars(BlinkStep) /\ WF_vars(PollDone)
    /\ ([]<>(~CanHandle) \/ []<><<QueueGet>>_vars)
    /\ WF_vars(DrainDone) /\ WF_vars(Render)

SpecBlink == Init /\ [][NextBlink]_vars /\ WF_vars(Tick) /\ MainLoopRuns

\* the last time of the model: a deadline at or after it is never passed
Horizon == MaxClock - START_TIME

\* C23: while ticks keep running and time advances, again and again every
\* button whose active-until time can pass is un-highlighted, so each
\* highlighted button is un-highlighted later; and a button that is not
\* highlighted stays so until an event sets the active-until of its
\* indicator.
C23_HighlightEventuallyCleared ==
    /\ []<>(~Running \/ \A b \in Buttons :
                            ~theme[b] \/ active_until[IndicatorOf(b)] >= Horizon)
    /\ [][\A b \in Buttons :
              (~theme[b] /\ theme'[b]) =>
                  /\ HandleOne
                  /\ IndicatorOf(b) \in MarkedBy(Head(queue).msg)]_vars

\* the controller's button was highlighted and is cleared again
C23_ControllerCleared ==
    /\ \E i \in 1 .. Len(decoded) : decoded[i].msg.type = "control_change"
    /\ ~theme[CcInd(1)]
    /\ active_until[CcInd(1)] > 0

\* C24: every pin is an endpoint of at most one link, and a link request
\* that names a pin which already has a link changes nothing: no port is
\* opened, no pin data or shape changes, no link is added.
LinksOf(pin) == {l \in links : pin = l[1] \/ pin = l[2]}
C24_OneLinkPerPin ==
    /\ [](\A pin \in Pins : Cardinality(LinksOf(pin)) <= 1)
    /\ [][\A a \in LinkAttempts, bad \in BadPorts, how \in OpenOutcomes :
              (LinkOpening(a[1], a[2], bad, how) /\ (LinksOf(a[1]) # {} \/ LinksOf(a[2]) # {}))
              => UNCHANGED connVars]_vars

\* in1 is linked to out1 and the probe's thru pin to out2: a request to
\* link in1 to the probe's input names a pin that has a link
C24_InputPortTaken ==
    links = {<<"in1", "out1">>, <<"probe_thru", "out2">>}

\* C25: at creation and after any changes of the EOX category exactly one
\* of the two End-of-Exclusive buttons is shown: the system-common one if
\* and only if eox_category is the first option, otherwise the
\* system-exclusive one.
C25_OneEoxButtonShown ==
    /\ eox_shown[Ind("end_of_exclusive_common", 0)] <=> eox_category = 1
    /\ eox_shown[Ind("end_of_exclusive_syx", 0)] <=> eox_category # 1

\* the category was changed to the second option
C25_SystemExclusiveChosen ==
    eox_category = 2 /\ eox_shown[Ind("end_of_exclusive_syx", 0)]

\* C26: after refresh_midi_ports the connections are those of the initial
\* state: no link, no port open, no port attached to a pin of the probe (and
\* no pin filled), so that no message is received until a new link is made.
\* (The code deletes the links and the ports' pins only.)
C26_RefreshResetsConnections ==
    [][\A ins \in InNameLists, outs \in OutNameLists :
           RefreshMidiPorts(ins, outs) =>
               /\ links' = ConnInit.links
               /\ in_port' = ConnInit.in_port
               /\ out_open' = ConnInit.out_open
               /\ pin_user_data' = ConnInit.pin_user_data
               /\ pin_shape' = ConnInit.pin_shape]_vars

(***************************************************************************)
(* Delinking                                                               *)
(***************************************************************************)
\* the pins of a link are as they were before any link was made to them
Unlinked(c, link) ==
    /\ link \notin c.links
    /\ \A pin \in {link[1], link[2]} :
          /\ ~c.pin_shape[pin]
          /\ pin \in ProbePins => IsNone(c.pin_user_data[pin])
          /\ pin \in InPorts => ~c.in_port[pin].open /\ ~c.in_port[pin].callback
          /\ pin \in OutPorts => ~c.out_open[pin]

\* the same links, pins and open ports (a closed port keeps its last destination)
SamePorts(c, d) ==
    /\ c.links = d.links
    /\ c.pin_user_data = d.pin_user_data
    /\ c.pin_shape = d.pin_shape
    /\ c.out_open = d.out_open
    /\ \A p \in InPorts : /\ c.in_port[p].open = d.in_port[p].open
                          /\ c.in_port[p].callback = d.in_port[p].callback

\* C27: delinking an accepted link (port to port, port to probe pin, probe
\* pin to port) closes every port the link opened, sets the probe pin's
\* attached port to None, unfills both pins and removes the link, leaving
\* the other links alone; the same link is accepted again.  Delinking a link
\* right after it was made on unlinked pins gives the connections before it.
C27_DelinkRestoresUnlinkedState ==
    /\ [][\A link \in LinkAttempts :
           Delink(link) =>
               /\ Unlinked(Conn', link)
               /\ links' = links \ {link}
               /\ link \in LinkNodeCallback(Conn', link[1], link[2]).links]_vars
    /\ [][\A link \in LinkAttempts :
             (link \in links' \ links /\ Unlinked(Conn, link)) =>
                 SamePorts(DelinkNodeCallback(Conn', link), Conn)]_vars

\* a link from an input port to the probe was made and has been removed
C27_ProbeLinkRemoved ==
    /\ links = {}
    /\ in_port["in1"].dest = Some("probe_in")
    /\ Unlinked(Conn, <<"in1", "probe_in">>)

(***************************************************************************)
(* The anchor of a new history row                                         *)
(***************************************************************************)
\* the row named probe_data_<n>, whether the name is looked up among the
\* rows' labels or among their tags
Anchors(table, n) ==
    {i \in 1 .. Len(table) : table[i].label = RowLabel(n) \/ table[i].tag = Some(RowLabel(n))}

\* C28: whenever a row is added to the history, the row it is to be inserted
\* before, probe_data_<previous counter value>, is in the table; after a
\* clear that is the placeholder row.  (A clear keeps the counter, and the
\* placeholder is probe_data_0 again.)
C28_AnchorRowInTable ==
    [][probe_data_counter' # probe_data_counter =>
           Anchors(probe_data_table, probe_data_counter) # {}]_vars

(***************************************************************************)
(* Routing: one input port linked to the probe, the probe's thru pin       *)
(* linked to an output port and one input port linked to an output port,   *)
(* with links made and removed while messages are received and handled.    *)
(***************************************************************************)
RouteLinks == {<<"in1", "probe_in">>, <<"probe_thru", "out2">>, <<"in2", "out1">>}

NextRoute ==
    \/ Tick
    \/ \E l \in RouteLinks : Link(l[1], l[2])
    \/ \E l \in RouteLinks : Delink(l)
    \/ \E p \in InPorts, m \in IOMsgs : ReceiveCallbackEnter(p, m)
    \/ \E p \in InPorts : ReceiveCallbackStamp(p)
    \/ \E p \in InPorts : ReceiveCallbackPut(p)
    \/ BlinkStep
    \/ PollDone
    \/ HandleOne
    \/ DrainDone
    \/ Render

SpecRoute == Init /\ [][NextRoute]_vars

QueueTaken == pc = "drain" /\ queue # <<>> /\ queue' = Tail(queue)
Echo(port, m) == [port |-> port, msg |-> m]

\* C29: a handled message whose destination pin holds an output port is sent
\* unchanged to that port; one whose destination is probe_in is sent
\* unchanged to the port attached to probe_thru, when there is one, and is
\* decoded and added to the history once; a message for another destination
\* is not decoded and not added to the history.
C29_HandledMessageRouted ==
    [][QueueTaken =>
           LET e == Head(queue)
               dest == Val(e.dest)
               thru == pin_user_data["probe_thru"]
           IN  /\ IsMidiOutPort(UserData(Conn, dest)) =>
                      sent' = Append(sent, Echo(Val(UserData(Conn, dest)), e.msg))
               /\ dest = "probe_in" =>
                      /\ sent' = IF IsNone(thru) THEN sent
                                 ELSE Append(sent, Echo(Val(thru), e.msg))
                      /\ Len(decoded') = Len(decoded) + 1
                      /\ decoded'[Len(decoded')].msg = e.msg
                      /\ Len(probe_data_table') = Len(probe_data_table) + 1
                      /\ raised' = "none"
               /\ dest # "probe_in" =>
                      UNCHANGED <<decoded, since_clear, probe_data_counter,
                                  probe_data_table>>]_vars

(***************************************************************************)
(* The keyboard: note and other messages received from the port linked to  *)
(* the probe and decoded one after the other, while the user switches the  *)
(* zero-velocity option.                                                   *)
(***************************************************************************)
KeyboardMsgs ==
    {NoteMsg(t, 0, n, v, None) : t \in {"note_on", "note_off"}, n \in NoteKeys, v \in {0, 64}}
    \cup {PlainMsg("polytouch", None), PlainMsg("clock", None)}

NextKeyboard ==
    \/ Link("in1", "probe_in")
    \/ \E m \in KeyboardMsgs : ReceiveCallbackEnter("in1", m)
    \/ ReceiveCallbackStamp("in1")
    \/ ReceiveCallbackPut("in1")
    \/ \E b \in BOOLEAN : SetZeroVelocity(b)
    \/ BlinkStep
    \/ PollDone
    \/ HandleOne
    \/ DrainDone
    \/ Render

SpecKeyboard == Init /\ [][NextKeyboard]_vars

\* a note_on that is not treated as a note-off when it is decoded
LightsKey(data) ==
    /\ data.type = "note_on"
    /\ data.velocity # 0 \/ ~zero_velocity_note_on_is_note_off

\* C30: no key is highlighted before any event; decoding a note_on or
\* note_off for note n leaves key n highlighted exactly if it is a note_on
\* not treated as a note-off (velocity not 0, or the zero-velocity option
\* off) and leaves the other keys alone; decoding polytouch or any other
\* type, and every other step, changes no key.  So a key is highlighted
\* if and only if the most recent note event for it was such a note_on.
C30_KeyFollowsLastNoteEvent ==
    /\ \A k \in NoteKeys : ~note_theme[k]
    /\ [][LET data == Head(queue).msg IN
          IF QueueTaken /\ Head(queue).dest = Some("probe_in")
                /\ data.type \in {"note_on", "note_off"}
          THEN note_theme' = [note_theme EXCEPT ![data.note] = LightsKey(data)]
          ELSE note_theme' = note_theme]_vars

\* key 0 was lit by a note_on, and a second note_on with velocity 0, decoded
\* with the zero-velocity option on, has put it out
C30_ZeroVelocityPutsKeyOut ==
    /\ Len(decoded) = 2
    /\ decoded[1].msg = NoteMsg("note_on", 0, 0, 64, None)
    /\ decoded[2].msg = NoteMsg("note_on", 0, 0, 0, None)
    /\ zero_velocity_note_on_is_note_off
    /\ ~note_theme[0]

====
